---- MODULE Spec2Model ----
(***************************************************************************)
(* Model of the adaptive load shedder of src/src/lib.rs: LoadShedConf      *)
(* (start / stop), Permit, and the future built by LoadShed::call.         *)
(*                                                                         *)
(* Time is a discrete clock `now`.  Latencies are exact rationals kept as  *)
(* integers scaled by Scale = EwmaDen^(WarmStops + MaxStops), so that the  *)
(* EWMA updates of a run lose no precision, also when the run starts from  *)
(* a state that WarmStops earlier completions have produced.               *)
(*                                                                         *)
(* The futures produced by LoadShed::call are interchangeable, so they are *)
(* kept as a bag of local states (`futures`).  A step of a future is one   *)
(* operation of the code that other futures can observe: a semaphore       *)
(* operation, or taking / releasing the stats mutex.  A semaphore is its   *)
(* number of free permits; acquire_owned().await completes in one step     *)
(* when a permit is free, in no particular order among the waiters.        *)
(***************************************************************************)
EXTENDS Integers, Naturals, FiniteSets, Sequences, Bags, TLC

\* ---------------------------------------------------------------- bounds
NumCallers == 3
MaxTime == 4
MaxStops == 2

\* ------------------------------------------------------- configuration
TargetTicks == 1
EwmaNum == 1
EwmaDen == 2

RECURSIVE Pow(_, _)
Pow(b, n) == IF n = 0 THEN 1 ELSE b * Pow(b, n - 1)

\* Number of completions behind the initial state of a warmed-up scenario
WarmStops == 2

Scale == Pow(EwmaDen, WarmStops + MaxStops)

Max(a, b) == IF a >= b THEN a ELSE b

\* ------------------------------------------------------------- results
NoResult == [tag |-> "None", val |-> "none"]
QueueFull == [tag |-> "QueueFull", val |-> "none"]
Overload == [tag |-> "Overload", val |-> "none"]
OkResponses == {"r"}
InnerErrors == {"e1"}
Responses == [tag : {"Ok"}, val : OkResponses] \cup [tag : {"Err"}, val : InnerErrors]
NoResponse == [tag |-> "None", val |-> "none"]

\* The local state of a future of LoadShed::call that is not running
IdleFuture ==
    [pc |-> "idle",               \* position in call / start / stop
     stats_guard |-> FALSE,       \* holds the MutexGuard `stats`
     queue_permit |-> FALSE,      \* holds `queue_permit`
     concurrency_permit |-> FALSE,\* holds `concurrency_permit` / `permit`
     start |-> 0,                 \* `start` of call
     elapsed |-> 0,               \* `elapsed` handed to stop
     available_permits |-> 0,     \* `available_permits` sampled in stop
     response |-> NoResponse]     \* `response` of call

VARIABLES
    target,                       \* LoadShedConf.target, in ticks
    available_concurrency,        \* free permits of the concurrency semaphore
    available_queue,              \* free permits of the queue semaphore
    lock,                         \* the stats mutex is locked
    moving_average,               \* ConfStats, scaled by Scale
    concurrency,
    last_decrement,
    last_increment,
    queue_capacity,
    average_latency_at_capacity,  \* scaled by Scale
    now,                          \* the clock read by Instant::now()
    completions,                  \* number of handler returns so far (bounded)
    futures,                      \* bag of the local states of the call futures
    result,                       \* the Result most recently returned by a call
    ended,                        \* history: how the most recent call ended
    inc_at,                       \* history: time of the last increase of concurrency
    dec_at                        \* history: time of the last decrease of concurrency

conf_vars == <<target>>
sem_vars == <<available_concurrency, available_queue>>
stats_vars == <<moving_average, concurrency, last_decrement, last_increment,
                queue_capacity, average_latency_at_capacity>>
out_vars == <<result, ended>>
hist_vars == <<inc_at, dec_at>>
vars == <<target, available_concurrency, available_queue, lock,
          moving_average, concurrency, last_decrement, last_increment,
          queue_capacity, average_latency_at_capacity, now, completions,
          futures, result, ended, inc_at, dec_at>>

\* ----------------------------------------------------------- operators

\* The bag b after the future in local state s moved to local state t
Moved(b, s, t) == (b (-) SetToBag({s})) (+) SetToBag({t})

\* Faulty variant: the new sample replaces the average
EwmaReplace(avg, e) == e * Scale

\* avg * (1 - ewma_param) + ewma_param * e, with e in ticks and avg scaled
Ewma(avg, e) == (avg * (EwmaDen - EwmaNum) + EwmaNum * e * Scale) \div EwmaDen

\* (x).floor() as usize : a negative float saturates to 0
FloorAsUsize(num, den) == IF num <= 0 THEN 0 ELSE num \div den

\* Faulty variant: the running calls are not subtracted from the system size
DesiredSystemSize ==
    Max(1, FloorAsUsize(concurrency * target * Scale, average_latency_at_capacity))

\* usize::max(1, floor(concurrency * (target / average_latency_at_capacity - 1)))
DesiredQueueCapacity ==
    Max(1, FloorAsUsize(concurrency * (target * Scale - average_latency_at_capacity),
                        average_latency_at_capacity))

\* Faulty variant: the permit is dropped without reaching the semaphore
ReleaseNothing(free) == free

\* Dropping an OwnedSemaphorePermit gives the permit back to its semaphore
Release(free) == free + 1

\* Faulty variant: forget behaves like a drop and gives the permit back
ForgetGivesBack(free) == free + 1

\* OwnedSemaphorePermit::forget drops the permit without giving it back
Forget(free) == free

\* Semaphore::add_permits(n)
AddPermits(free, n) == free + n

\* Faulty variant: the non-blocking acquire never reports NoPermits
TryAcquireAlways(free, n) == TRUE

\* Semaphore::try_acquire_many(n) / try_acquire_owned() succeed iff n permits are free
TryAcquire(free, n) == free >= n

\* Faulty variant: a rejection by the queue sizer is reported as Overload
StartErrorOverload(step) == IF step = "sizer" THEN Overload ELSE QueueFull

\* LoadShed::call maps every Err of start to QueueFull
StartError(step) == QueueFull

\* Ok(response?) : an inner error is converted by From into Inner(e)
CallResult(resp) ==
    IF resp.tag = "Ok" THEN [tag |-> "Ok", val |-> resp.val]
    ELSE [tag |-> "Inner", val |-> resp.val]

\* Faulty variant: the pool is grown without being saturated
GrowCondUnsaturated(avail, avg) ==
    /\ avg < target * Scale
    /\ now - last_increment > target

\* Faulty variant: the increment cooldown is compared with >= instead of >
GrowCondGe(avail, avg) ==
    /\ avail = 0
    /\ avg < target * Scale
    /\ now - last_increment >= target

\* stop, lines 129-131
GrowCond(avail, avg) ==
    /\ avail = 0
    /\ avg < target * Scale
    /\ now - last_increment > target

\* Faulty variant: the decrement cooldown is not tested
ShrinkCondNoCooldown(avg) ==
    /\ avg > target * Scale
    /\ concurrency > 1

\* Faulty variant: the floor `concurrency > 1` is missing
ShrinkCondNoFloor(avg) ==
    /\ avg > target * Scale
    /\ now - last_decrement > target

\* stop, lines 137-139
ShrinkCond(avg) ==
    /\ avg > target * Scale
    /\ now - last_decrement > target
    /\ concurrency > 1

\* Faulty variant: the at-capacity average is updated by every completion
AtCapacityAlways(avail) == TRUE

\* stop, line 146
AtCapacity(avail) == avail = 0

\* ----------------------------------------------------------------- Init
\* LoadShedConf::new
Init ==
    /\ target = TargetTicks
    /\ available_concurrency = 1
    /\ available_queue = 1
    /\ lock = FALSE
    /\ moving_average = TargetTicks * Scale
    /\ concurrency = 1
    /\ last_decrement = 0
    /\ last_increment = 0
    /\ queue_capacity = 1
    /\ average_latency_at_capacity = TargetTicks * Scale
    /\ now = 0
    /\ completions = 0
    /\ futures = (IdleFuture :> NumCallers)
    /\ result = NoResult
    /\ ended = "none"
    /\ inc_at = 0
    /\ dec_at = 0

\* Target latency of scenario A in ticks: one tick is a fifth of the target
ExampleTargetTicks == 5

\* Scenario A: the gate of LoadShedConf::new, target_latency 1.0 s = 5 ticks,
\* more than the target latency (6 ticks) after its creation, no call made
\* yet.  The origin of the clock is put at the first call.
InitExample ==
    /\ target = ExampleTargetTicks
    /\ available_concurrency = 1
    /\ available_queue = 1
    /\ lock = FALSE
    /\ moving_average = ExampleTargetTicks * Scale
    /\ concurrency = 1
    /\ last_decrement = 0 - (ExampleTargetTicks + 1)
    /\ last_increment = 0 - (ExampleTargetTicks + 1)
    /\ queue_capacity = 1
    /\ average_latency_at_capacity = ExampleTargetTicks * Scale
    /\ now = 0
    /\ completions = 0
    /\ futures = (IdleFuture :> NumCallers)
    /\ result = NoResult
    /\ ended = "none"
    /\ inc_at = 0 - (ExampleTargetTicks + 1)
    /\ dec_at = 0 - (ExampleTargetTicks + 1)

\* Scenario C: the gate after two fast completions at capacity grew the
\* concurrency to 3 (at times 2 and 4 after creation, each halving both
\* averages), the queue sizer last ran with concurrency 2, and every call has
\* ended.  Instants are compared only by difference: the origin of the clock
\* is put at the last increase, the creation lies 4 ticks back.
InitOverload ==
    /\ target = TargetTicks
    /\ available_concurrency = 3
    /\ available_queue = 2
    /\ lock = FALSE
    /\ moving_average = (TargetTicks * Scale) \div 4
    /\ concurrency = 3
    /\ last_decrement = 0 - 4
    /\ last_increment = 0
    /\ queue_capacity = 2
    /\ average_latency_at_capacity = (TargetTicks * Scale) \div 4
    /\ now = 0
    /\ completions = 0
    /\ futures = (IdleFuture :> NumCallers)
    /\ result = NoResult
    /\ ended = "dropped_running"
    /\ inc_at = 0
    /\ dec_at = 0 - 4

\* -------------------------------------------------------------- actions

\* The clock advances
Tick ==
    /\ now < MaxTime
    /\ now' = now + 1
    /\ UNCHANGED <<conf_vars, sem_vars, lock, stats_vars, completions,
                   futures, out_vars, hist_vars>>

\* Faulty variant: the queue sizer rejects whenever the pool has to shrink
StartResizeStrict(s) ==
    /\ s.pc = "idle"
    /\ ~ lock
    /\ LET desired == DesiredQueueCapacity
           t == [s EXCEPT !.pc = "sizer_set", !.stats_guard = TRUE]
       IN  IF desired < queue_capacity
           THEN /\ UNCHANGED <<available_queue, lock, futures>>
                /\ result' = StartError("sizer")
                /\ ended' = "sizer"
           ELSE /\ available_queue' = AddPermits(available_queue, desired - queue_capacity)
                /\ lock' = TRUE
                /\ futures' = Moved(futures, s, t)
                /\ UNCHANGED out_vars
    /\ UNCHANGED <<conf_vars, available_concurrency, stats_vars, now, completions,
                   hist_vars>>

\* Faulty variant: a failed shrink of the queue pool keeps the free permits
\* it could get
StartResizePartial(s) ==
    /\ s.pc = "idle"
    /\ ~ lock
    /\ LET desired == DesiredQueueCapacity
           n == queue_capacity - desired
           t == [s EXCEPT !.pc = "sizer_set", !.stats_guard = TRUE]
       IN  IF desired < queue_capacity
           THEN IF TryAcquire(available_queue, n)
                THEN /\ available_queue' = Forget(available_queue - n)
                     /\ lock' = TRUE
                     /\ futures' = Moved(futures, s, t)
                     /\ UNCHANGED out_vars
                ELSE /\ available_queue' = Forget(0)
                     /\ UNCHANGED <<lock, futures>>
                     /\ result' = StartError("sizer")
                     /\ ended' = "sizer"
           ELSE /\ available_queue' = AddPermits(available_queue, desired - queue_capacity)
                /\ lock' = TRUE
                /\ futures' = Moved(futures, s, t)
                /\ UNCHANGED out_vars
    /\ UNCHANGED <<conf_vars, available_concurrency, stats_vars, now, completions,
                   hist_vars>>

\* start, lines 80-97 : take the stats mutex, compute the desired queue
\* capacity and resize the queue semaphore.  A failed shrink returns Err
\* (the guard is dropped) and call returns QueueFull.
StartResize(s) ==
    /\ s.pc = "idle"
    /\ ~ lock
    /\ LET desired == DesiredQueueCapacity
           n == queue_capacity - desired
           t == [s EXCEPT !.pc = "sizer_set", !.stats_guard = TRUE]
       IN  IF desired < queue_capacity
           THEN IF TryAcquire(available_queue, n)
                THEN /\ available_queue' = Forget(available_queue - n)
                     /\ lock' = TRUE
                     /\ futures' = Moved(futures, s, t)
                     /\ UNCHANGED out_vars
                ELSE /\ UNCHANGED <<available_queue, lock, futures>>
                     /\ result' = StartError("sizer")
                     /\ ended' = "sizer"
           ELSE /\ available_queue' = AddPermits(available_queue, desired - queue_capacity)
                /\ lock' = TRUE
                /\ futures' = Moved(futures, s, t)
                /\ UNCHANGED out_vars
    /\ UNCHANGED <<conf_vars, available_concurrency, stats_vars, now, completions,
                   hist_vars>>

\* Faulty variant: the mutex guard is not scoped and stays held after the resize
StartSetCapacityKeepsLock(s) ==
    /\ s.pc = "sizer_set"
    /\ queue_capacity' = DesiredQueueCapacity
    /\ futures' = Moved(futures, s, [s EXCEPT !.pc = "try_queue"])
    /\ UNCHANGED <<conf_vars, sem_vars, lock, moving_average, concurrency,
                   last_decrement, last_increment, average_latency_at_capacity,
                   now, completions, out_vars, hist_vars>>

\* start, lines 103-104 : record the new capacity and release the mutex
StartSetCapacity(s) ==
    /\ s.pc = "sizer_set"
    /\ queue_capacity' = DesiredQueueCapacity
    /\ lock' = FALSE
    /\ futures' = Moved(futures, s, [s EXCEPT !.pc = "try_queue", !.stats_guard = FALSE])
    /\ UNCHANGED <<conf_vars, sem_vars, moving_average, concurrency, last_decrement,
                   last_increment, average_latency_at_capacity, now, completions,
                   out_vars, hist_vars>>

\* start, lines 106-110 : try_acquire_owned on the queue semaphore
TryAcquireQueue(s) ==
    /\ s.pc = "try_queue"
    /\ IF TryAcquire(available_queue, 1)
       THEN /\ available_queue' = available_queue - 1
            /\ futures' = Moved(futures, s, [s EXCEPT !.pc = "wait", !.queue_permit = TRUE])
            /\ UNCHANGED out_vars
       ELSE /\ futures' = Moved(futures, s, IdleFuture)
            /\ result' = StartError("queue")
            /\ ended' = "queue"
            /\ UNCHANGED available_queue
    /\ UNCHANGED <<conf_vars, available_concurrency, lock, stats_vars, now,
                   completions, hist_vars>>

\* Faulty variant: the grant does not take the permit out of the pool
AcquireDuplicate(s) ==
    /\ s.pc = "wait"
    /\ available_concurrency > 0
    /\ futures' = Moved(futures, s, [s EXCEPT !.pc = "granted", !.concurrency_permit = TRUE])
    /\ UNCHANGED <<conf_vars, sem_vars, lock, stats_vars, now, completions,
                   out_vars, hist_vars>>

\* start, lines 111-116 : acquire_owned().await completes
AcquireConcurrency(s) ==
    /\ s.pc = "wait"
    /\ available_concurrency > 0
    /\ available_concurrency' = available_concurrency - 1
    /\ futures' = Moved(futures, s, [s EXCEPT !.pc = "granted", !.concurrency_permit = TRUE])
    /\ UNCHANGED <<conf_vars, available_queue, lock, stats_vars, now, completions,
                   out_vars, hist_vars>>

\* Faulty variant: the queue permit is kept while the inner handler runs
KeepQueuePermit(s) ==
    /\ s.pc = "granted"
    /\ futures' = Moved(futures, s, [s EXCEPT !.pc = "running", !.start = now])
    /\ UNCHANGED <<conf_vars, sem_vars, lock, stats_vars, now, completions,
                   out_vars, hist_vars>>

\* start, lines 117-118 and call, lines 235-236 : drop(queue_permit), then
\* the inner handler is started
DropQueuePermit(s) ==
    /\ s.pc = "granted"
    /\ available_queue' = Release(available_queue)
    /\ futures' = Moved(futures, s, [s EXCEPT !.pc = "running", !.queue_permit = FALSE,
                                              !.start = now])
    /\ UNCHANGED <<conf_vars, available_concurrency, lock, stats_vars, now,
                   completions, out_vars, hist_vars>>

\* Faulty variant: an error of the inner handler is returned by `?` before
\* stop is called, the permit is dropped
InnerReturnEarly(s) ==
    /\ s.pc = "running"
    /\ completions < MaxStops
    /\ completions' = completions + 1
    /\ \E r \in Responses :
          IF r.tag = "Err"
          THEN /\ futures' = Moved(futures, s, IdleFuture)
               /\ available_concurrency' = Release(available_concurrency)
               /\ result' = CallResult(r)
               /\ ended' = "returned"
          ELSE /\ futures' = Moved(futures, s, [s EXCEPT !.pc = "returned", !.response = r,
                                                         !.elapsed = now - s.start,
                                                         !.start = 0])
               /\ UNCHANGED <<available_concurrency, out_vars>>
    /\ UNCHANGED <<conf_vars, available_queue, lock, stats_vars, now, hist_vars>>

\* call, lines 236-237 : the inner handler returns, start.elapsed() is read
InnerReturn(s) ==
    /\ s.pc = "running"
    /\ completions < MaxStops
    /\ completions' = completions + 1
    /\ \E r \in Responses :
          futures' = Moved(futures, s, [s EXCEPT !.pc = "returned", !.response = r,
                                                 !.elapsed = now - s.start, !.start = 0])
    /\ UNCHANGED <<conf_vars, sem_vars, lock, stats_vars, now, out_vars, hist_vars>>

\* stop, lines 124-133 : grow branch up to add_permits(1)
StopGrow(s) ==
    /\ s.pc = "returned"
    /\ ~ lock
    /\ LET avg == Ewma(moving_average, s.elapsed)
       IN  /\ GrowCond(available_concurrency, avg)
           /\ moving_average' = avg
    /\ available_concurrency' = AddPermits(available_concurrency, 1)
    /\ lock' = TRUE
    /\ futures' = Moved(futures, s, [s EXCEPT !.pc = "grown", !.stats_guard = TRUE,
                                              !.available_permits = available_concurrency])
    /\ UNCHANGED <<conf_vars, available_queue, concurrency, last_decrement,
                   last_increment, queue_capacity, average_latency_at_capacity,
                   now, completions, out_vars, hist_vars>>

\* stop, lines 134-149 after add_permits : record the increase, update the
\* at-capacity average, release the mutex
StopGrowRecord(s) ==
    /\ s.pc = "grown"
    /\ concurrency' = concurrency + 1
    /\ last_increment' = now
    /\ inc_at' = now
    /\ average_latency_at_capacity' =
          IF AtCapacity(s.available_permits)
          THEN Ewma(average_latency_at_capacity, s.elapsed)
          ELSE average_latency_at_capacity
    /\ lock' = FALSE
    /\ futures' = Moved(futures, s, [s EXCEPT !.pc = "stop_drop", !.stats_guard = FALSE,
                                              !.available_permits = 0, !.elapsed = 0])
    /\ UNCHANGED <<conf_vars, sem_vars, moving_average, last_decrement,
                   queue_capacity, now, completions, out_vars, dec_at>>

\* stop, lines 124-141 : shrink branch up to concurrency_permit.forget()
StopShrink(s) ==
    /\ s.pc = "returned"
    /\ ~ lock
    /\ LET avg == Ewma(moving_average, s.elapsed)
       IN  /\ ~ GrowCond(available_concurrency, avg)
           /\ ShrinkCond(avg)
           /\ moving_average' = avg
    /\ available_concurrency' = Forget(available_concurrency)
    /\ lock' = TRUE
    /\ futures' = Moved(futures, s, [s EXCEPT !.pc = "shrunk", !.stats_guard = TRUE,
                                              !.concurrency_permit = FALSE,
                                              !.available_permits = available_concurrency])
    /\ UNCHANGED <<conf_vars, available_queue, concurrency, last_decrement,
                   last_increment, queue_capacity, average_latency_at_capacity,
                   now, completions, out_vars, hist_vars>>

\* stop, lines 142-149 after forget, and call, line 238 : record the
\* decrease, update the at-capacity average, release the mutex, return
StopShrinkRecord(s) ==
    /\ s.pc = "shrunk"
    /\ concurrency' = concurrency - 1
    /\ last_decrement' = now
    /\ dec_at' = now
    /\ average_latency_at_capacity' =
          IF AtCapacity(s.available_permits)
          THEN Ewma(average_latency_at_capacity, s.elapsed)
          ELSE average_latency_at_capacity
    /\ lock' = FALSE
    /\ futures' = Moved(futures, s, IdleFuture)
    /\ result' = CallResult(s.response)
    /\ ended' = "returned"
    /\ UNCHANGED <<conf_vars, sem_vars, moving_average, last_increment,
                   queue_capacity, now, completions, inc_at>>

\* stop, lines 124-149 when neither branch is taken
StopNoAdjust(s) ==
    /\ s.pc = "returned"
    /\ ~ lock
    /\ LET avg == Ewma(moving_average, s.elapsed)
       IN  /\ ~ GrowCond(available_concurrency, avg)
           /\ ~ ShrinkCond(avg)
           /\ moving_average' = avg
    /\ average_latency_at_capacity' =
          IF AtCapacity(available_concurrency)
          THEN Ewma(average_latency_at_capacity, s.elapsed)
          ELSE average_latency_at_capacity
    /\ futures' = Moved(futures, s, [s EXCEPT !.pc = "stop_drop", !.elapsed = 0])
    /\ UNCHANGED <<conf_vars, sem_vars, lock, concurrency, last_decrement,
                   last_increment, queue_capacity, now, completions,
                   out_vars, hist_vars>>

\* end of stop : the concurrency_permit parameter is dropped after the
\* mutex guard; call, line 238 : Ok(response?)
StopDropPermit(s) ==
    /\ s.pc = "stop_drop"
    /\ available_concurrency' = Release(available_concurrency)
    /\ futures' = Moved(futures, s, IdleFuture)
    /\ result' = CallResult(s.response)
    /\ ended' = "returned"
    /\ UNCHANGED <<conf_vars, available_queue, lock, stats_vars, now, completions,
                   hist_vars>>

\* Faulty variant: the queue permit of an abandoned wait is lost
CancelWaitingLeak(s) ==
    /\ s.pc = "wait"
    /\ futures' = Moved(futures, s, IdleFuture)
    /\ result' = NoResult
    /\ ended' = "dropped_waiting"
    /\ UNCHANGED <<conf_vars, sem_vars, lock, stats_vars, now, completions, hist_vars>>

\* The future is dropped while suspended at acquire_owned().await :
\* queue_permit goes out of scope
CancelWaiting(s) ==
    /\ s.pc = "wait"
    /\ available_queue' = Release(available_queue)
    /\ futures' = Moved(futures, s, IdleFuture)
    /\ result' = NoResult
    /\ ended' = "dropped_waiting"
    /\ UNCHANGED <<conf_vars, available_concurrency, lock, stats_vars, now,
                   completions, hist_vars>>

\* Faulty variant: dropping the running future still feeds the latency tracker
CancelRunningRecords(s) ==
    /\ s.pc = "running"
    /\ ~ lock
    /\ moving_average' = Ewma(moving_average, now - s.start)
    /\ available_concurrency' = Release(available_concurrency)
    /\ futures' = Moved(futures, s, IdleFuture)
    /\ result' = NoResult
    /\ ended' = "dropped_running"
    /\ UNCHANGED <<conf_vars, available_queue, lock, concurrency, last_decrement,
                   last_increment, queue_capacity, average_latency_at_capacity,
                   now, completions, hist_vars>>

\* The future is dropped while suspended at inner.call(req).await :
\* permit goes out of scope
CancelRunning(s) ==
    /\ s.pc = "running"
    /\ available_concurrency' = Release(available_concurrency)
    /\ futures' = Moved(futures, s, IdleFuture)
    /\ result' = NoResult
    /\ ended' = "dropped_running"
    /\ UNCHANGED <<conf_vars, available_queue, lock, stats_vars, now, completions,
                   hist_vars>>

Next ==
    \/ Tick
    \/ \E s \in BagToSet(futures) : StartResize(s)
    \/ \E s \in BagToSet(futures) : StartSetCapacity(s)
    \/ \E s \in BagToSet(futures) : TryAcquireQueue(s)
    \/ \E s \in BagToSet(futures) : AcquireConcurrency(s)
    \/ \E s \in BagToSet(futures) : DropQueuePermit(s)
    \/ \E s \in BagToSet(futures) : InnerReturn(s)
    \/ \E s \in BagToSet(futures) : StopGrow(s)
    \/ \E s \in BagToSet(futures) : StopGrowRecord(s)
    \/ \E s \in BagToSet(futures) : StopShrink(s)
    \/ \E s \in BagToSet(futures) : StopShrinkRecord(s)
    \/ \E s \in BagToSet(futures) : StopNoAdjust(s)
    \/ \E s \in BagToSet(futures) : StopDropPermit(s)
    \/ \E s \in BagToSet(futures) : CancelWaiting(s)
    \/ \E s \in BagToSet(futures) : CancelRunning(s)

Spec == Init /\ [][Next]_vars

\* Positions of start and stop whose next step takes no mutex and waits for
\* no permit
ProceedPcs == {"sizer_set", "try_queue", "granted", "grown", "shrunk", "stop_drop"}

\* The step of a future at position p that runs on synchronously
Proceed(p) ==
    \E s \in BagToSet(futures) :
        /\ s.pc = p
        /\ \/ StartSetCapacity(s)
           \/ TryAcquireQueue(s)
           \/ DropQueuePermit(s)
           \/ StopGrowRecord(s)
           \/ StopShrinkRecord(s)
           \/ StopDropPermit(s)

\* stop gets the stats mutex
StopLocked ==
    \E s \in BagToSet(futures) : StopGrow(s) \/ StopShrink(s) \/ StopNoAdjust(s)

\* A call to the inner handler ends: it returns or its future is dropped
HandlerEnds ==
    \E s \in BagToSet(futures) : InnerReturn(s) \/ CancelRunning(s)

\* A waiter is granted a concurrency permit
Granted ==
    \E s \in BagToSet(futures) : AcquireConcurrency(s)

\* The gate when synchronous code runs on, a blocked lock() is eventually
\* served, every handler call ends, and a free permit goes to a waiter
SpecFair ==
    /\ Spec
    /\ \A p \in ProceedPcs : WF_vars(Proceed(p))
    /\ SF_vars(StopLocked)
    /\ WF_vars(HandlerEnds)
    /\ WF_vars(Granted)

\* Scenario A: every handler returns faster than the target latency, which
\* keeps moving_average from rising above target
ExampleReturn(s) ==
    /\ now - s.start < target
    /\ InnerReturn(s)

\* The steps of scenario A: no call is abandoned and every completion is
\* fast, so stop never shrinks
NextExample ==
    \/ Tick
    \/ \E s \in BagToSet(futures) : StartResize(s)
    \/ \E s \in BagToSet(futures) : StartSetCapacity(s)
    \/ \E s \in BagToSet(futures) : TryAcquireQueue(s)
    \/ \E s \in BagToSet(futures) : AcquireConcurrency(s)
    \/ \E s \in BagToSet(futures) : DropQueuePermit(s)
    \/ \E s \in BagToSet(futures) : ExampleReturn(s)
    \/ \E s \in BagToSet(futures) : StopGrow(s)
    \/ \E s \in BagToSet(futures) : StopGrowRecord(s)
    \/ \E s \in BagToSet(futures) : StopNoAdjust(s)
    \/ \E s \in BagToSet(futures) : StopDropPermit(s)

\* The gate from the state of scenario A under fast completions
SpecExample == InitExample /\ [][NextExample]_vars

\* Scenario C: every handler return comes at least two target latencies after
\* the handler was started, which keeps moving_average above target
OverloadReturn(s) ==
    /\ now - s.start >= 2 * target
    /\ InnerReturn(s)

\* The steps of scenario C: no call is abandoned, every completion is slow
NextOverload ==
    \/ Tick
    \/ \E s \in BagToSet(futures) : StartResize(s)
    \/ \E s \in BagToSet(futures) : StartSetCapacity(s)
    \/ \E s \in BagToSet(futures) : TryAcquireQueue(s)
    \/ \E s \in BagToSet(futures) : AcquireConcurrency(s)
    \/ \E s \in BagToSet(futures) : DropQueuePermit(s)
    \/ \E s \in BagToSet(futures) : OverloadReturn(s)
    \/ \E s \in BagToSet(futures) : StopShrink(s)
    \/ \E s \in BagToSet(futures) : StopShrinkRecord(s)
    \/ \E s \in BagToSet(futures) : StopNoAdjust(s)
    \/ \E s \in BagToSet(futures) : StopDropPermit(s)

\* The gate from the state of scenario C under sustained overload
SpecOverload == InitOverload /\ [][NextOverload]_vars

\* ------------------------------------------------------ derived notions

\* The future in local state s took a step that left it in local state t
Stepped(s, t) ==
    /\ s # t
    /\ futures' # futures
    /\ s \in BagToSet(futures)
    /\ t \in BagToSet(futures')
    /\ futures' = Moved(futures, s, t)

RECURSIVE SumCopies(_, _)
SumCopies(b, S) ==
    IF S = {} THEN 0
    ELSE LET x == CHOOSE y \in S : TRUE
         IN  CopiesIn(x, b) + SumCopies(b, S \ {x})

\* Number of concurrency permits granted and neither released nor forgotten
OutstandingOf(b) == SumCopies(b, {s \in BagToSet(b) : s.concurrency_permit})
Outstanding == OutstandingOf(futures)

\* Number of queue permits held by futures
QueueHeldOf(b) == SumCopies(b, {s \in BagToSet(b) : s.queue_permit})
QueueHeld == QueueHeldOf(futures)

\* Number of callers suspended at acquire_owned().await
Waiting == SumCopies(futures, {s \in BagToSet(futures) : s.pc = "wait"})

\* Positions at which a future holds the stats mutex
CriticalPcs == {"sizer_set", "grown", "shrunk"}

\* One step of the gate (start or stop) by the future in local state s
GateStep(s) ==
    \/ StartResize(s)
    \/ StartSetCapacity(s)
    \/ TryAcquireQueue(s)
    \/ AcquireConcurrency(s)
    \/ DropQueuePermit(s)
    \/ StopGrow(s)
    \/ StopGrowRecord(s)
    \/ StopShrink(s)
    \/ StopShrinkRecord(s)
    \/ StopNoAdjust(s)
    \/ StopDropPermit(s)

\* ------------------------------------------------------------ properties

\* C1: in every reachable state the recorded concurrency is at least 1 and
\* the recorded queue_capacity is at least 1.
C1_AtLeastOne ==
    /\ concurrency >= 1
    /\ queue_capacity >= 1

\* Concurrency was decreased back to 1 by a completion in overload
C1_Witness ==
    /\ dec_at > 0
    /\ concurrency = 1
    /\ moving_average > target * Scale
    /\ queue_capacity = 1

\* C2 as stated: the outstanding concurrency permits never exceed the
\* recorded concurrency, at any moment.
C2_Original == Outstanding <= concurrency

\* C2 amended: the outstanding concurrency permits never exceed the recorded
\* concurrency, except while a stop that has added a permit has not yet
\* incremented concurrency, when they exceed it by at most one.
C2_OutstandingBound ==
    Outstanding <= concurrency +
        (IF \E s \in BagToSet(futures) : s.pc = "grown" THEN 1 ELSE 0)

\* A waiter was granted the permit added by a stop that has not yet recorded it
C2_Witness ==
    /\ \E s \in BagToSet(futures) : s.pc = "grown"
    /\ Outstanding = concurrency + 1

C4_QueueFullImmediately ==
    [][ \A s \in BagToSet(futures), t \in BagToSet(futures') :
          (s.pc = "try_queue" /\ available_queue = 0 /\ Stepped(s, t)) =>
              /\ t.pc = "idle"
              /\ ~ t.queue_permit
              /\ ~ t.concurrency_permit
              /\ t.start = s.start
              /\ result' = QueueFull
              /\ sem_vars' = sem_vars ]_vars

\* queue_capacity = 1, the one permit is held by a waiting caller, and
\* the most recent call was rejected by the try-acquire
C4_Witness ==
    /\ queue_capacity = 1
    /\ available_queue = 0
    /\ \E s \in BagToSet(futures) : s.pc = "wait" /\ s.queue_permit
    /\ ended = "queue"
    /\ result = QueueFull

\* C5: average_latency_at_capacity changes only in a stop that sampled zero
\* free concurrency permits (the sample is taken before the permit of the
\* call is returned and before the pool is grown).
C5_AtCapacityOnly ==
    [][ /\ \A s \in BagToSet(futures), t \in BagToSet(futures') :
              (s.pc = "returned" /\ t.pc \in {"grown", "shrunk"} /\ Stepped(s, t)) =>
                  t.available_permits = available_concurrency
        /\ average_latency_at_capacity' # average_latency_at_capacity =>
              \E s \in BagToSet(futures), t \in BagToSet(futures') :
                  /\ \/ /\ s.pc = "returned" /\ t.pc = "stop_drop"
                        /\ available_concurrency = 0
                     \/ /\ s.pc \in {"grown", "shrunk"}
                        /\ s.available_permits = 0
                  /\ Stepped(s, t) ]_vars

\* One completion was sampled at capacity and another one with a free permit
C5_Witness ==
    /\ completions = 2
    /\ average_latency_at_capacity # target * Scale
    /\ moving_average # average_latency_at_capacity
    /\ \A s \in BagToSet(futures) : s.pc \notin {"returned", "grown", "shrunk"}

\* C6: abandoning the wait for a concurrency permit returns the queue permit
\* to the queue pool (one more free permit, same total), consumes or loses
\* no concurrency permit and leaves the limiter state unchanged.
C6_CancelWaiting ==
    [][ \A s \in BagToSet(futures), t \in BagToSet(futures') :
          (s.pc = "wait" /\ t.pc = "idle" /\ Stepped(s, t)) =>
              /\ s.queue_permit /\ ~ t.queue_permit
              /\ available_queue' = available_queue + 1
              /\ available_queue' + QueueHeldOf(futures') = available_queue + QueueHeld
              /\ available_concurrency' = available_concurrency
              /\ OutstandingOf(futures') = Outstanding
              /\ stats_vars' = stats_vars ]_vars

\* A caller abandoned its wait while no concurrency permit was free
C6_Witness ==
    /\ ended = "dropped_waiting"
    /\ available_concurrency = 0
    /\ ~ lock
    /\ available_queue + QueueHeld = queue_capacity

\* C7: cancelling a caller that holds a concurrency permit and has not yet
\* called stop returns the permit to the pool and leaves moving_average,
\* average_latency_at_capacity, concurrency, last_increment and
\* last_decrement unchanged.
C7_CancelRunning ==
    [][ \A s \in BagToSet(futures), t \in BagToSet(futures') :
          (s.pc = "running" /\ t.pc = "idle" /\ Stepped(s, t)) =>
              /\ s.concurrency_permit /\ ~ t.concurrency_permit
              /\ available_concurrency' = available_concurrency + 1
              /\ moving_average' = moving_average
              /\ average_latency_at_capacity' = average_latency_at_capacity
              /\ concurrency' = concurrency
              /\ last_increment' = last_increment
              /\ last_decrement' = last_decrement ]_vars

\* A running caller was cancelled after time had passed and every permit is
\* back in the pool
C7_Witness ==
    /\ ended = "dropped_running"
    /\ available_concurrency = concurrency
    /\ now > 0

\* The lock is held exactly by the one future inside a critical section,
\* and every position but the wait can step whatever the pools contain
C8_LockState ==
    /\ lock <=> \E s \in BagToSet(futures) : s.stats_guard
    /\ SumCopies(futures, {s \in BagToSet(futures) : s.stats_guard}) <= 1
    /\ \A s \in BagToSet(futures) : s.stats_guard => s.pc \in CriticalPcs
    /\ \A s \in BagToSet(futures) : s.pc = "wait" => ~ s.stats_guard
    /\ \A s \in BagToSet(futures) :
          ( \/ s.pc \in {"idle", "returned"} /\ ~ lock
            \/ s.pc \in {"sizer_set", "try_queue", "granted", "grown", "shrunk", "stop_drop"} )
          => ENABLED GateStep(s)
    /\ \A s \in BagToSet(futures) :
          (s.pc = "wait" /\ available_concurrency = 0) => ~ ENABLED GateStep(s)

\* The limiter state is changed only by a step of the future that holds the
\* mutex, or of a future that takes the free mutex in that step
C8_LockedMutation ==
    stats_vars' # stats_vars =>
        \E s \in BagToSet(futures), t \in BagToSet(futures') :
            /\ s.stats_guard \/ ~ lock
            /\ Stepped(s, t)

\* C8: the stats mutex is held only inside the critical sections, never by a
\* caller waiting for a concurrency permit; the limiter state is never
\* changed by a caller while another caller holds the mutex; and every step
\* of the gate except the acquire of a concurrency permit can be taken
\* whatever the pools contain.
C8_LockDiscipline == [] C8_LockState /\ [][C8_LockedMutation]_vars

\* A caller is suspended on the empty concurrency pool while another caller
\* is inside a critical section
C8_Witness ==
    /\ lock
    /\ available_concurrency = 0
    /\ \E s \in BagToSet(futures) : s.pc = "wait"

\* C9: every admission failure is returned as QueueFull with no retry, the
\* Overload error is never produced, and an error of the inner handler is
\* returned as Inner carrying that error.
C9_Errors ==
    [][ /\ result'.tag # "Overload"
        /\ ended' \in {"sizer", "queue"} => result' = QueueFull
        /\ (futures' = futures /\ out_vars' # out_vars) =>
              /\ ended' = "sizer"
              /\ result' = QueueFull
              /\ sem_vars' = sem_vars /\ lock' = lock /\ stats_vars' = stats_vars
        /\ \A s \in BagToSet(futures), t \in BagToSet(futures') :
              /\ (s.pc = "try_queue" /\ t.pc = "idle" /\ Stepped(s, t)) =>
                    ended' = "queue" /\ result' = QueueFull
              /\ (s.pc \in {"shrunk", "stop_drop"} /\ Stepped(s, t)) =>
                    /\ t.pc = "idle"
                    /\ s.response.tag = "Err" =>
                          result' = [tag |-> "Inner", val |-> s.response.val]
                    /\ s.response.tag = "Ok" =>
                          result' = [tag |-> "Ok", val |-> s.response.val] ]_vars

\* The most recent call was rejected by the failed shrink of the queue sizer
C9_Witness ==
    /\ ended = "sizer"
    /\ result = QueueFull
    /\ DesiredQueueCapacity < queue_capacity
    /\ ~ TryAcquire(available_queue, queue_capacity - DesiredQueueCapacity)

\* C10: a normal release of a permit makes exactly one more permit free in
\* the pool it came from, so that an acquire on that pool then succeeds.
C10_ReleaseRoundTrip ==
    [][ \A s \in BagToSet(futures), t \in BagToSet(futures') :
          /\ (s.concurrency_permit /\ ~ t.concurrency_permit /\ t.pc # "shrunk"
                 /\ Stepped(s, t)) =>
                /\ available_concurrency' = available_concurrency + 1
                /\ TryAcquire(available_concurrency', 1)
          /\ (s.queue_permit /\ ~ t.queue_permit /\ Stepped(s, t)) =>
                /\ available_queue' = available_queue + 1
                /\ TryAcquire(available_queue', 1) ]_vars

\* A permit was released by a completed call while another caller is waiting
C10_Witness ==
    /\ ended = "returned"
    /\ available_concurrency >= 1
    /\ \E s \in BagToSet(futures) : s.pc = "wait"

\* One step of the gate under sustained overload
C11_Step ==
    /\ concurrency' <= concurrency
    /\ concurrency' < concurrency =>
          /\ concurrency' = concurrency - 1
          /\ now' - dec_at > target
    /\ \A s \in BagToSet(futures), t \in BagToSet(futures') :
          /\ (s.pc = "returned" /\ Stepped(s, t)) =>
                /\ moving_average' > target * Scale
                /\ t.pc = "shrunk" <=> (now - last_decrement > target /\ concurrency > 1)
          /\ (s.pc = "shrunk" /\ Stepped(s, t)) =>
                /\ concurrency' = concurrency - 1
                /\ dec_at' = now

C12_Scenario(s) ==
    /\ concurrency = 1
    /\ available_concurrency = 0
    /\ s.concurrency_permit
    /\ now - last_increment > target
    /\ 5 * s.elapsed = 2 * target

\* One step of stop in scenario A
C12_Step ==
    \A s \in BagToSet(futures), t \in BagToSet(futures') :
       /\ (s.pc = "returned" /\ Stepped(s, t)) =>
             /\ EwmaDen * moving_average' =
                    (EwmaDen - EwmaNum) * moving_average + EwmaNum * s.elapsed * Scale
             /\ (C12_Scenario(s) /\ moving_average = target * Scale) =>
                   /\ 10 * moving_average' = 7 * target * Scale
                   /\ t.pc = "grown"
                   /\ t.available_permits = 0
                   /\ available_concurrency' = available_concurrency + 1
       /\ (s.pc = "grown" /\ Stepped(s, t) /\ C12_Scenario(s)
               /\ average_latency_at_capacity = target * Scale) =>
             /\ concurrency' = 2
             /\ 10 * average_latency_at_capacity' = 7 * target * Scale
             /\ available_concurrency' = available_concurrency

\* C12: every stop sets moving_average to moving_average * (1 - ewma_param) +
\* ewma_param * elapsed, saturated or not; with target 1.0, ewma_param 0.5,
\* concurrency 1, both averages at 1.0 and more than the target elapsed since
\* creation, a stop with elapsed 0.4 by the holder of the sole permit sets
\* moving_average to 0.7, adds one permit, grows concurrency to 2 and sets
\* average_latency_at_capacity to 0.7.
C12_StopExample == [][C12_Step]_vars

\* The first stop had elapsed 0.4 target and left both averages at 0.7 target
C12_Witness ==
    /\ completions = 1
    /\ concurrency = 2
    /\ 10 * moving_average = 7 * target * Scale
    /\ 10 * average_latency_at_capacity = 7 * target * Scale
    /\ inc_at = 2
    /\ ~ lock

\* One step of stop: the decision, and what each branch does afterwards
C13_Step ==
    \A s \in BagToSet(futures), t \in BagToSet(futures') :
       /\ (s.pc = "returned" /\ Stepped(s, t)) =>
             LET grow == /\ available_concurrency = 0
                         /\ moving_average' < target * Scale
                         /\ now - last_increment > target
                 shrink == /\ moving_average' > target * Scale
                           /\ now - last_decrement > target
                           /\ concurrency > 1
             IN  /\ t.pc = "grown" <=> grow
                 /\ t.pc = "shrunk" <=> (~ grow /\ shrink)
                 /\ t.pc = "stop_drop" <=> (~ grow /\ ~ shrink)
                 /\ t.pc = "grown" =>
                       /\ available_concurrency' = available_concurrency + 1
                       /\ t.concurrency_permit
                 /\ t.pc = "shrunk" =>
                       /\ available_concurrency' = available_concurrency
                       /\ ~ t.concurrency_permit
                 /\ t.pc = "stop_drop" =>
                       /\ available_concurrency' = available_concurrency
                       /\ t.concurrency_permit
                 /\ UNCHANGED <<concurrency, last_increment, last_decrement>>
       /\ (s.pc = "grown" /\ Stepped(s, t)) =>
             /\ concurrency' = concurrency + 1
             /\ last_increment' = now
             /\ UNCHANGED <<last_decrement, available_concurrency>>
             /\ t.pc = "stop_drop" /\ t.concurrency_permit
       /\ (s.pc = "shrunk" /\ Stepped(s, t)) =>
             /\ concurrency' = concurrency - 1
             /\ last_decrement' = now
             /\ UNCHANGED <<last_increment, available_concurrency>>
             /\ t.pc = "idle"
       /\ (s.pc = "stop_drop" /\ Stepped(s, t)) =>
             /\ UNCHANGED <<concurrency, last_increment, last_decrement>>
             /\ available_concurrency' = available_concurrency + 1
             /\ t.pc = "idle"

\* C13: a stop makes at most one adjustment.  It grows (one permit added,
\* concurrency + 1, last_increment = now) iff the pool had no free permit, the
\* updated moving_average is below target and more than target has passed
\* since last_increment; otherwise it shrinks (own permit forgotten,
\* concurrency - 1, last_decrement = now) iff the updated moving_average is
\* above target, more than target has passed since last_decrement and
\* concurrency > 1; otherwise the three fields are unchanged.  Unless the
\* permit was forgotten it is returned to the pool.
C13_OneAdjustment == [][C13_Step]_vars

\* One stop has grown the pool and a later stop has shrunk it again
C13_Witness ==
    /\ inc_at > 0
    /\ dec_at >= inc_at
    /\ completions = 2
    /\ available_concurrency = concurrency
    /\ ended = "returned"

\* One step of the queue sizer
C14_Step ==
    LET desired ==
           IF average_latency_at_capacity >= target * Scale THEN 1
           ELSE Max(1, (concurrency * (target * Scale - average_latency_at_capacity))
                           \div average_latency_at_capacity)
    IN  /\ (\E s \in BagToSet(futures) : s.pc = "sizer_set") =>
              UNCHANGED <<concurrency, average_latency_at_capacity, target>>
        /\ \A s \in BagToSet(futures), t \in BagToSet(futures') :
              /\ (s.pc = "idle" /\ Stepped(s, t)) =>
                    /\ t.pc = "sizer_set"
                    /\ available_queue' = available_queue + desired - queue_capacity
                    /\ desired < queue_capacity =>
                          available_queue >= queue_capacity - desired
                    /\ queue_capacity' = queue_capacity
              /\ (s.pc = "sizer_set" /\ Stepped(s, t)) =>
                    /\ queue_capacity' = desired
                    /\ available_queue' = available_queue

\* C14: an admission attempt that the queue sizer does not reject leaves
\* queue_capacity = max(1, floor(concurrency * (target_latency /
\* average_latency_at_capacity - 1))), computed from the state at that moment,
\* which is 1 whenever average_latency_at_capacity >= target_latency; the
\* queue pool gains desired - old permits when desired is larger, loses
\* old - desired free permits when it is smaller, and is untouched when equal.
C14_QueueSizer == [][C14_Step]_vars

\* Scenario D: concurrency 2, the at-capacity average not below the target,
\* and the sizer has just left a queue pool of size 1 as it was
C14_Witness ==
    /\ concurrency = 2
    /\ average_latency_at_capacity >= target * Scale
    /\ queue_capacity = 1
    /\ available_queue = 1
    /\ \E s \in BagToSet(futures) : s.pc = "sizer_set"

\* The queue sizer has to remove more queue permits than are free
C15_ShrinkFails ==
    /\ DesiredQueueCapacity < queue_capacity
    /\ available_queue < queue_capacity - DesiredQueueCapacity

\* One step of the gate, seen from a failing shrink of the queue pool
C15_Step ==
    /\ C15_ShrinkFails =>
          \A s \in BagToSet(futures), t \in BagToSet(futures') :
              ~ (s.pc = "idle" /\ Stepped(s, t))
    /\ (futures' = futures /\ now' = now /\ vars' # vars) =>
          /\ C15_ShrinkFails
          /\ ~ lock
          /\ result' = QueueFull
          /\ ended' = "sizer"
          /\ UNCHANGED <<sem_vars, stats_vars, lock, conf_vars>>

\* C15: when the queue sizer has to remove n = queue_capacity - desired
\* permits and fewer than n are free, the admission attempt is rejected and
\* nothing changes: no queue permit is removed, queue_capacity keeps its
\* value, the caller acquires neither a queue nor a concurrency permit, and
\* the concurrency pool and the limiter state are untouched.
C15_RejectedShrink == [][C15_Step]_vars

\* The sizer rejected a call while waiting callers held queue permits it
\* had to remove, and the pool is as it was
C15_Witness ==
    /\ ended = "sizer"
    /\ C15_ShrinkFails
    /\ QueueHeld >= 1
    /\ available_queue + QueueHeld = queue_capacity
    /\ ~ lock

\* A queue permit is held from the try-acquire to the grant of the
\* concurrency permit, and a running call holds one concurrency permit only
C16_PermitScope ==
    \A s \in BagToSet(futures) :
       /\ s.queue_permit <=> s.pc \in {"wait", "granted"}
       /\ s.pc = "wait" => ~ s.concurrency_permit
       /\ s.pc \in {"granted", "running"} => s.concurrency_permit

\* C16 as stated: a queue permit is held exactly while waiting, and the
\* number of waiting callers never exceeds the recorded queue_capacity.
C16_Original ==
    /\ C16_PermitScope
    /\ Waiting <= queue_capacity

\* C16 amended: a queue permit is held exactly while waiting, and the number
\* of waiting callers never exceeds the recorded queue_capacity, except while
\* a queue sizer that has resized the pool has not yet recorded the new
\* capacity, when it never exceeds the capacity about to be recorded.
C16_WaitingBound ==
    /\ C16_PermitScope
    /\ Waiting <= (IF \E s \in BagToSet(futures) : s.pc = "sizer_set"
                   THEN DesiredQueueCapacity ELSE queue_capacity)

\* A caller took the queue permit added by a sizer that has not yet recorded
\* the new capacity
C16_Witness ==
    /\ \E s \in BagToSet(futures) : s.pc = "sizer_set"
    /\ Waiting = queue_capacity + 1
    /\ Waiting = DesiredQueueCapacity
    /\ available_queue = 0

\* One step of a call from the return of the inner handler to its result
C17_Step ==
    /\ \A s \in BagToSet(futures), t \in BagToSet(futures') :
          /\ (s.pc = "running" /\ Stepped(s, t)) =>
                \/ /\ t.pc = "returned"
                   /\ t.response \in Responses
                   /\ t.concurrency_permit
                   /\ out_vars' = out_vars
                \/ /\ t.pc = "idle"
                   /\ ended' = "dropped_running"
                   /\ result' = NoResult
          /\ (s.pc = "returned" /\ Stepped(s, t)) =>
                /\ t.pc \in {"grown", "shrunk", "stop_drop"}
                /\ EwmaDen * moving_average' =
                       (EwmaDen - EwmaNum) * moving_average + EwmaNum * s.elapsed * Scale
                /\ t.response = s.response
                /\ out_vars' = out_vars
          /\ (s.pc = "grown" /\ Stepped(s, t)) =>
                /\ t.pc = "stop_drop"
                /\ t.response = s.response
                /\ moving_average' = moving_average
                /\ out_vars' = out_vars
          /\ (s.pc \in {"shrunk", "stop_drop"} /\ Stepped(s, t)) =>
                /\ t = IdleFuture
                /\ moving_average' = moving_average
                /\ s.pc = "stop_drop" =>
                      s.concurrency_permit /\ available_concurrency' = available_concurrency + 1
                /\ s.pc = "shrunk" =>
                      ~ s.concurrency_permit /\ concurrency' = concurrency - 1
                /\ ended' = "returned"
                /\ result' = IF s.response.tag = "Err"
                             THEN [tag |-> "Inner", val |-> s.response.val]
                             ELSE [tag |-> "Ok", val |-> s.response.val]
    /\ (ended' = "returned" /\ out_vars' # out_vars) =>
          \E s \in BagToSet(futures), t \in BagToSet(futures') :
              /\ s.pc \in {"shrunk", "stop_drop"}
              /\ Stepped(s, t)

\* C17: for every admitted request whose inner handler returns, with a
\* response or with an error, stop runs exactly once between the return and
\* the handing of the result to the caller: the latency sample enters
\* moving_average and the concurrency permit is released or forgotten, so the
\* call that has returned its result holds no permit.
C17_StopOnce ==
    [] (\A s \in BagToSet(futures) : s.pc = "idle" => s = IdleFuture) /\ [][C17_Step]_vars

\* A call whose inner handler failed has returned Inner and every permit is
\* back in the pool
C17_Witness ==
    /\ ended = "returned"
    /\ result.tag = "Inner"
    /\ completions >= 1
    /\ moving_average # target * Scale
    /\ futures = (IdleFuture :> NumCallers)
    /\ available_concurrency = concurrency

\* C18: an admission attempt can be rejected by the shrink step of the queue
\* sizer while the queue pool holds a free permit that the try-acquire would
\* have given it; this happens only with queue_capacity above 2, some but not
\* all queue permits held by callers, and desired below queue_capacity by
\* more than the number of free permits.
C18_RejectedWithFreeSlot ==
    [][ (futures' = futures /\ now' = now /\ vars' # vars /\ available_queue >= 1) =>
           /\ ended' = "sizer"
           /\ result' = QueueFull
           /\ TryAcquire(available_queue, 1)
           /\ queue_capacity > 2
           /\ queue_capacity - DesiredQueueCapacity > available_queue
           /\ QueueHeld >= 1
           /\ QueueHeld < queue_capacity ]_vars

\* The sizer has rejected a call while a queue permit was free and other
\* callers were waiting
C18_Witness ==
    /\ ended = "sizer"
    /\ result = QueueFull
    /\ available_queue >= 1
    /\ queue_capacity - DesiredQueueCapacity > available_queue
    /\ Waiting >= 1
    /\ available_queue + QueueHeld = queue_capacity
    /\ futures # (IdleFuture :> NumCallers)
    /\ completions >= 1

\* C19: whenever no caller is inside a critical section of the stats mutex,
\* the free concurrency permits plus the outstanding ones equal the recorded
\* concurrency, and the free queue permits plus those held by callers equal
\* the recorded queue_capacity.
C19_Conservation ==
    ~ lock =>
        /\ available_concurrency + Outstanding = concurrency
        /\ available_queue + QueueHeld = queue_capacity

\* Both pools were resized, a waiting caller was cancelled, a call was
\* rejected, and permits of both pools are out
C19_Witness ==
    /\ ~ lock
    /\ inc_at > 0
    /\ queue_capacity > 1
    /\ Outstanding >= 1
    /\ QueueHeld >= 1
    /\ ended \in {"dropped_waiting", "queue"}

\* The gate always keeps a concurrency permit, free or held by a call
C20_PermitLeft == available_concurrency + Outstanding >= 1

====
